---- MODULE Spec2Model ----
(***************************************************************************)
(* Model of the MovieDBREST handlers of src/main.py: the actor catalog     *)
(* (table actor of movies-extended.db) and the movie catalog (table movies *)
(* of movies.db), with one action per HTTP handler.  Under Spec every      *)
(* request runs to completion before the next one starts; under SpecRace   *)
(* two workers run add_actor / edit_actor statement by statement.          *)
(***************************************************************************)
EXTENDS Integers, Sequences, FiniteSets, TLC

\* ---------------------------------------------------------------- bounds
\* Largest row id a table may hold (inserts stop there).
MaxId == 2
\* Most rows the two tables hold together.
MaxRows == 3
\* Longest id list of a batch delete.
MaxBatch == 2

\* ---------------------------------------------------------------- values
\* A JSON / SQL value is None (a missing key, SQL NULL) or one scalar.
None == {}
Txt(s) == {s}
Num(n) == {n}

\* Variant of FalsyTxt: tests `is None` where the code tests truthiness.
FalsyTxt_NoneOnly(x) == x = None

\* Python truthiness of a text value and of an integer value (`not x`).
FalsyTxt(x) == x = None \/ x = Txt("")
FalsyNum(x) == x = None \/ x = Num(0)

\* SQL `a = ?`: never true when either side is NULL.
SqlEq(a, b) == a # None /\ b # None /\ a = b

Ids == 1..MaxId

NameVals == {None, Txt(""), Txt("a"), Txt("b")}
SurnameVals == {None, Txt(""), Txt("s")}
TitleVals == {None, Txt(""), Txt("t")}
YearVals == {None, Num(1999), Num(2000)}
ActorsVals == {None, Txt("x")}

\* Request bodies: params.get(k) is None when the key is missing.
\* The bodies sent: a valid one, and those with one field changed or dropped.
ActorBodies == {b \in [name : NameVals, surname : SurnameVals] :
                   b.name = Txt("a") \/ b.surname = Txt("s")}
MovieBodies == {b \in [title : TitleVals, year : YearVals, actors : ActorsVals] :
                   \/ b.title = Txt("t") /\ b.year = Num(1999)
                   \/ b.title = Txt("t") /\ b.actors = Txt("x")
                   \/ b.year = Num(1999) /\ b.actors = Txt("x")}

RECURSIVE SeqsUpTo(_)
SeqsUpTo(n) ==
    IF n = 0 THEN {<<>>}
    ELSE LET shorter == SeqsUpTo(n - 1)
         IN  shorter \cup {Append(s, i) : s \in {t \in shorter : Len(t) = n - 1}, i \in Ids}

\* The id lists a batch delete is sent, the empty list and repeats included.
IdLists == SeqsUpTo(MaxBatch)

Range(s) == {s[k] : k \in DOMAIN s}

SetMax(S) == CHOOSE m \in S : \A x \in S : x <= m

\* ---------------------------------------------------------------- state
VARIABLES
    actor,      \* table actor: id -> [name, surname]
    movies,     \* table movies: id -> [title, year, actors]
    nullable,   \* whether the columns accept NULL: the schema lives in the
                \* database files, so both answers are explored
    last,       \* the request being answered and its response, on its way to the client
    prev,       \* the request answered just before, when it was a successful create
    req         \* SpecRace: each worker's request in flight

vars == <<actor, movies, nullable, last, prev, req>>

NoBody == [kind |-> "none"]
NoActorParams == [name |-> None, surname |-> None]

Resp(op, id, params, ids, status, body) ==
    [op |-> op, id |-> id, params |-> params, ids |-> ids,
     status |-> status, body |-> body]

\* The rowid SQLite gives the next inserted row of table t (an INTEGER
\* PRIMARY KEY column: one more than the largest rowid in the table).
LastRowId(t) == IF DOMAIN t = {} THEN 1 ELSE SetMax(DOMAIN t) + 1

\* Inserts are explored while the new id and the row count stay within the bounds.
HasRoom(t) ==
    /\ LastRowId(t) <= MaxId
    /\ Cardinality(DOMAIN actor) + Cardinality(DOMAIN movies) < MaxRows

Insert(t, row) == [i \in DOMAIN t \cup {LastRowId(t)} |->
                      IF i \in DOMAIN t THEN t[i] ELSE row]

\* Variant of DeleteIn: a DELETE whose WHERE clause is lost.
DeleteIn_NoWhere(t, S) == [i \in {} |-> t[i]]

DeleteIn(t, S) == [i \in DOMAIN t \ S |-> t[i]]

\* ------------------------------------------------------- actor handlers
\* Variant of ActorJson: the columns of the row read in the wrong order.
ActorJson_Swapped(id) == [kind |-> "actor", id |-> id,
                          name |-> actor[id].surname, surname |-> actor[id].name]

ActorJson(id) == [kind |-> "actor", id |-> id,
                  name |-> actor[id].name, surname |-> actor[id].surname]

actors ==
    /\ last' = Resp("actors", 0, NoActorParams, <<>>, 200,
                    [kind |-> "list", rows |-> {ActorJson(i) : i \in DOMAIN actor}])
    /\ UNCHANGED <<actor, movies, nullable, prev, req>>

get_single_actor(actor_id) ==
    /\ last' = IF actor_id \notin DOMAIN actor
               THEN Resp("get_single_actor", actor_id, NoActorParams, <<>>, 404, NoBody)
               ELSE Resp("get_single_actor", actor_id, NoActorParams, <<>>, 200,
                         ActorJson(actor_id))
    /\ UNCHANGED <<actor, movies, nullable, prev, req>>

\* Variant of ExistingActor: the duplicate check compares the surname only.
ExistingActor_SurnameOnly(name, surname) ==
    {i \in DOMAIN actor : SqlEq(actor[i].surname, surname)}

ExistingActor(name, surname) ==
    {i \in DOMAIN actor : SqlEq(actor[i].name, name) /\ SqlEq(actor[i].surname, surname)}

add_actor(params) ==
    LET name == params.name
        surname == params.surname
    IN  /\ UNCHANGED <<movies, nullable, prev, req>>
        /\ IF FalsyTxt(name) \/ FalsyTxt(surname)
           THEN /\ last' = Resp("add_actor", 0, params, <<>>, 400, NoBody)
                /\ UNCHANGED actor
           ELSE IF ExistingActor(name, surname) # {}
           THEN /\ last' = Resp("add_actor", 0, params, <<>>, 409, NoBody)
                /\ UNCHANGED actor
           ELSE /\ HasRoom(actor)
                /\ actor' = Insert(actor, [name |-> name, surname |-> surname])
                /\ last' = Resp("add_actor", 0, params, <<>>, 200,
                                [kind |-> "added", id |-> LastRowId(actor)])

\* Variants of ExistingOtherActor: the check left out, and the check
\* without its `id != ?`.
ExistingOtherActor_None(name, surname, actor_id) == {}
ExistingOtherActor_AnyId(name, surname, actor_id) == ExistingActor(name, surname)

ExistingOtherActor(name, surname, actor_id) ==
    {i \in ExistingActor(name, surname) : i # actor_id}

edit_actor(actor_id, params) ==
    LET new_name == params.name
        new_surname == params.surname
    IN  /\ UNCHANGED <<movies, nullable, prev, req>>
        /\ IF ExistingOtherActor(new_name, new_surname, actor_id) # {}
           THEN /\ last' = Resp("edit_actor", actor_id, params, <<>>, 409, NoBody)
                /\ UNCHANGED actor
           ELSE IF actor_id \notin DOMAIN actor
           THEN /\ last' = Resp("edit_actor", actor_id, params, <<>>, 404, NoBody)
                /\ UNCHANGED actor
           ELSE IF ~nullable /\ (new_name = None \/ new_surname = None)
           THEN \* sqlite3.IntegrityError, unhandled: the framework answers 500
                /\ last' = Resp("edit_actor", actor_id, params, <<>>, 500, NoBody)
                /\ UNCHANGED actor
           ELSE /\ actor' = [actor EXCEPT ![actor_id] =
                                [name |-> new_name, surname |-> new_surname]]
                /\ last' = Resp("edit_actor", actor_id, params, <<>>, 200, NoBody)

BatchBody(id_list, rows_deleted) ==
    IF rows_deleted < Len(id_list)
    THEN [kind |-> "partial", requested_ids |-> id_list,
          actual_deleted_count |-> rows_deleted]
    ELSE [kind |-> "full", deleted_ids |-> id_list]

del_actors(actor_ids) ==
    /\ UNCHANGED <<movies, nullable, prev, req>>
    /\ IF actor_ids = <<>>
       THEN /\ last' = Resp("del_actors", 0, NoActorParams, actor_ids, 400, NoBody)
            /\ UNCHANGED actor
       ELSE LET rows_deleted == Cardinality(DOMAIN actor \cap Range(actor_ids))
            IN  /\ actor' = DeleteIn(actor, Range(actor_ids))
                /\ last' = Resp("del_actors", 0, NoActorParams, actor_ids, 200,
                                BatchBody(actor_ids, rows_deleted))

del_actor(actor_id) ==
    /\ UNCHANGED <<movies, nullable, prev, req>>
    /\ actor' = DeleteIn(actor, {actor_id})
    /\ last' = IF actor_id \notin DOMAIN actor
               THEN Resp("del_actor", actor_id, NoActorParams, <<>>, 404, NoBody)
               ELSE Resp("del_actor", actor_id, NoActorParams, <<>>, 200, NoBody)

\* ------------------------------------------------------- movie handlers
NoMovieParams == [title |-> None, year |-> None, actors |-> None]

MovieJson(id) == [kind |-> "movie", id |-> id, title |-> movies[id].title,
                  year |-> movies[id].year, actors |-> movies[id].actors]

get_movies ==
    /\ last' = Resp("get_movies", 0, NoMovieParams, <<>>, 200,
                    [kind |-> "list", rows |-> {MovieJson(i) : i \in DOMAIN movies}])
    /\ UNCHANGED <<actor, movies, nullable, prev, req>>

get_single_movie(movie_id) ==
    /\ last' = IF movie_id \notin DOMAIN movies
               THEN Resp("get_single_movie", movie_id, NoMovieParams, <<>>, 404, NoBody)
               ELSE Resp("get_single_movie", movie_id, NoMovieParams, <<>>, 200,
                         MovieJson(movie_id))
    /\ UNCHANGED <<actor, movies, nullable, prev, req>>

ExistingMovie(title, year) ==
    {i \in DOMAIN movies : SqlEq(movies[i].title, title) /\ SqlEq(movies[i].year, year)}

add_movie(params) ==
    LET title == params.title
        year == params.year
        acts == params.actors
    IN  /\ UNCHANGED <<actor, nullable, prev, req>>
        /\ IF FalsyTxt(title) \/ FalsyNum(year) \/ FalsyTxt(acts)
           THEN /\ last' = Resp("add_movie", 0, params, <<>>, 400, NoBody)
                /\ UNCHANGED movies
           ELSE IF ExistingMovie(title, year) # {}
           THEN /\ last' = Resp("add_movie", 0, params, <<>>, 409, NoBody)
                /\ UNCHANGED movies
           ELSE /\ HasRoom(movies)
                /\ movies' = Insert(movies, [title |-> title, year |-> year, actors |-> acts])
                /\ last' = Resp("add_movie", 0, params, <<>>, 200,
                                [kind |-> "added", id |-> LastRowId(movies)])

del_movies(movie_ids) ==
    /\ UNCHANGED <<actor, nullable, prev, req>>
    /\ IF movie_ids = <<>>
       THEN /\ last' = Resp("del_movies", 0, NoMovieParams, movie_ids, 400, NoBody)
            /\ UNCHANGED movies
       ELSE LET rows_deleted == Cardinality(DOMAIN movies \cap Range(movie_ids))
            IN  /\ movies' = DeleteIn(movies, Range(movie_ids))
                /\ last' = Resp("del_movies", 0, NoMovieParams, movie_ids, 200,
                                BatchBody(movie_ids, rows_deleted))

del_movie(movie_id) ==
    /\ UNCHANGED <<actor, nullable, prev, req>>
    /\ movies' = DeleteIn(movies, {movie_id})
    /\ last' = IF movie_id \notin DOMAIN movies
               THEN Resp("del_movie", movie_id, NoMovieParams, <<>>, 404, NoBody)
               ELSE Resp("del_movie", movie_id, NoMovieParams, <<>>, 200, NoBody)

\* Variant of ExistingOtherMovie: the check left out.
ExistingOtherMovie_None(title, year, movie_id) == {}

ExistingOtherMovie(title, year, movie_id) ==
    {i \in ExistingMovie(title, year) : i # movie_id}

edit_movie(movie_id, params) ==
    LET new_title == params.title
        new_year == params.year
        new_actors == params.actors
    IN  /\ UNCHANGED <<actor, nullable, prev, req>>
        /\ IF ExistingOtherMovie(new_title, new_year, movie_id) # {}
           THEN /\ last' = Resp("edit_movie", movie_id, params, <<>>, 409, NoBody)
                /\ UNCHANGED movies
           ELSE IF movie_id \notin DOMAIN movies
           THEN /\ last' = Resp("edit_movie", movie_id, params, <<>>, 404, NoBody)
                /\ UNCHANGED movies
           ELSE IF ~nullable /\ (new_title = None \/ new_year = None \/ new_actors = None)
           THEN /\ last' = Resp("edit_movie", movie_id, params, <<>>, 500, NoBody)
                /\ UNCHANGED movies
           ELSE /\ movies' = [movies EXCEPT ![movie_id] =
                                 [title |-> new_title, year |-> new_year,
                                  actors |-> new_actors]]
                /\ last' = Resp("edit_movie", movie_id, params, <<>>, 200, NoBody)

\* ---------------------------------------------------------- sequential
Procs == {1, 2}
IdleReq == [pc |-> "idle"]
NoLast == Resp("none", 0, NoActorParams, <<>>, 0, NoBody)
NoPrev == [op |-> "none"]

\* No response is on its way: the next request may be handled.
Ready == last.op = "none"

\* The response reaches the client, which keeps the id a create returned.
Deliver ==
    /\ last.op # "none"
    /\ prev' = IF last.op \in {"add_actor", "add_movie"} /\ last.status = 200
               THEN [op |-> last.op, params |-> last.params, id |-> last.body.id]
               ELSE NoPrev
    /\ last' = NoLast
    /\ UNCHANGED <<actor, movies, nullable, req>>

Init ==
    /\ actor = <<>>
    /\ movies = <<>>
    /\ nullable \in BOOLEAN
    /\ last = NoLast
    /\ prev = NoPrev
    /\ req = [p \in Procs |-> IdleReq]

Next ==
    \/ Ready /\ actors
    \/ \E i \in Ids : Ready /\ get_single_actor(i)
    \/ \E b \in ActorBodies : Ready /\ add_actor(b)
    \/ \E i \in Ids, b \in ActorBodies : Ready /\ edit_actor(i, b)
    \/ \E l \in IdLists : Ready /\ del_actors(l)
    \/ \E i \in Ids : Ready /\ del_actor(i)
    \/ Ready /\ get_movies
    \/ \E i \in Ids : Ready /\ get_single_movie(i)
    \/ \E b \in MovieBodies : Ready /\ add_movie(b)
    \/ \E l \in IdLists : Ready /\ del_movies(l)
    \/ \E i \in Ids : Ready /\ del_movie(i)
    \/ \E i \in Ids, b \in MovieBodies : Ready /\ edit_movie(i, b)
    \/ Deliver

Spec == Init /\ [][Next]_vars

\* ---------------------------------------------------------- concurrent
\* Two workers of the thread pool, each on its own connection, run add_actor
\* and edit_actor one statement at a time: the SELECT of the duplicate check
\* and the INSERT / UPDATE with its commit are separate steps.
RaceBodies == {b \in ActorBodies : ~FalsyTxt(b.name) /\ ~FalsyTxt(b.surname)}

RaceReq(pc, op, id, params, status) ==
    [pc |-> pc, op |-> op, id |-> id, params |-> params, status |-> status]

\* A request reaches worker p.
race_start(p) ==
    /\ req[p].pc = "idle"
    /\ \E op \in {"add_actor", "edit_actor"}, i \in Ids, b \in RaceBodies :
          req' = [req EXCEPT ![p] =
                     RaceReq("check", op, IF op = "add_actor" THEN 0 ELSE i, b, 0)]
    /\ UNCHANGED <<actor, movies, nullable, last, prev>>

\* add_actor up to the duplicate check.
race_add_check(p) ==
    /\ req[p].pc = "check" /\ req[p].op = "add_actor"
    /\ req' = [req EXCEPT ![p] =
                  IF ExistingActor(req[p].params.name, req[p].params.surname) # {}
                  THEN [@ EXCEPT !.pc = "done", !.status = 409]
                  ELSE [@ EXCEPT !.pc = "write"]]
    /\ UNCHANGED <<actor, movies, nullable, last, prev>>

\* Variant of race_add_write: the INSERT looks at the table again.
race_add_write_Rechecked(p) ==
    /\ req[p].pc = "write" /\ req[p].op = "add_actor"
    /\ IF ExistingActor(req[p].params.name, req[p].params.surname) # {}
       THEN /\ req' = [req EXCEPT ![p] = [@ EXCEPT !.pc = "done", !.status = 409]]
            /\ UNCHANGED actor
       ELSE /\ HasRoom(actor)
            /\ actor' = Insert(actor, req[p].params)
            /\ req' = [req EXCEPT ![p] = [@ EXCEPT !.pc = "done", !.status = 200,
                                                     !.id = LastRowId(actor)]]
    /\ UNCHANGED <<movies, nullable, last, prev>>

\* add_actor from the INSERT on.
race_add_write(p) ==
    /\ req[p].pc = "write" /\ req[p].op = "add_actor"
    /\ HasRoom(actor)
    /\ actor' = Insert(actor, req[p].params)
    /\ req' = [req EXCEPT ![p] = [@ EXCEPT !.pc = "done", !.status = 200,
                                             !.id = LastRowId(actor)]]
    /\ UNCHANGED <<movies, nullable, last, prev>>

\* edit_actor up to the duplicate check.
race_edit_check(p) ==
    /\ req[p].pc = "check" /\ req[p].op = "edit_actor"
    /\ req' = [req EXCEPT ![p] =
                  IF ExistingOtherActor(req[p].params.name, req[p].params.surname,
                                        req[p].id) # {}
                  THEN [@ EXCEPT !.pc = "done", !.status = 409]
                  ELSE [@ EXCEPT !.pc = "write"]]
    /\ UNCHANGED <<actor, movies, nullable, last, prev>>

\* edit_actor from the UPDATE on.
race_edit_write(p) ==
    /\ req[p].pc = "write" /\ req[p].op = "edit_actor"
    /\ IF req[p].id \notin DOMAIN actor
       THEN /\ req' = [req EXCEPT ![p] = [@ EXCEPT !.pc = "done", !.status = 404]]
            /\ UNCHANGED actor
       ELSE /\ actor' = [actor EXCEPT ![req[p].id] = req[p].params]
            /\ req' = [req EXCEPT ![p] = [@ EXCEPT !.pc = "done", !.status = 200]]
    /\ UNCHANGED <<movies, nullable, last, prev>>

\* The worker has answered and is free again.
race_return(p) ==
    /\ req[p].pc = "done"
    /\ req' = [req EXCEPT ![p] = IdleReq]
    /\ UNCHANGED <<actor, movies, nullable, last, prev>>

NextRace ==
    \/ \E p \in Procs : race_start(p)
    \/ \E p \in Procs : race_add_check(p)
    \/ \E p \in Procs : race_add_write(p)
    \/ \E p \in Procs : race_edit_check(p)
    \/ \E p \in Procs : race_edit_write(p)
    \/ \E p \in Procs : race_return(p)

SpecRace == Init /\ [][NextRace]_vars

\* ------------------------------------------------------------ properties
\* Two stored values are the same value (NULL is no value, as in the
\* handlers' WHERE clauses).
SameVal(a, b) == a # None /\ b # None /\ a = b

SamePair(r, name, surname) == SameVal(r.name, name) /\ SameVal(r.surname, surname)
SameKey(r, title, year) == SameVal(r.title, title) /\ SameVal(r.year, year)

Empty(x) == x = None \/ x = Txt("")

\* A handler has just run: its response is in last', the store before it in
\* the unprimed tables.
Handled(ops) == last.op = "none" /\ last'.op \in ops

\* C1: with requests handled one at a time, no two actors ever share a
\* (name, surname) pair and no two movies a (title, year) pair.  A pair is
\* shared when both of its fields are values and equal; where the columns
\* reject NULL no two rows agree on their pair in any sense.
C1_UniqueKeys ==
    /\ \A i, j \in DOMAIN actor :
          i # j => ~SamePair(actor[i], actor[j].name, actor[j].surname)
    /\ \A i, j \in DOMAIN movies :
          i # j => ~SameKey(movies[i], movies[j].title, movies[j].year)
    /\ ~nullable =>
          /\ \A i, j \in DOMAIN actor : i # j => actor[i] # actor[j]
          /\ \A i, j \in DOMAIN movies :
                i # j => <<movies[i].title, movies[i].year>>
                         # <<movies[j].title, movies[j].year>>

\* An update onto another row's pair has been refused with two rows stored.
C1_Witness ==
    /\ last.op \in {"edit_actor", "edit_movie"}
    /\ last.status = 409
    /\ Cardinality(DOMAIN actor) = 2 \/ Cardinality(DOMAIN movies) = 2

\* C2: a create-actor request with a non-empty pair that no stored actor has
\* is answered 200 with the id of the new row, and the same request sent
\* right after it is answered 409, the store holding exactly one such actor.
C2_CreateTwice ==
    [][ /\ ( /\ Handled({"add_actor"})
             /\ ~Empty(last'.params.name) /\ ~Empty(last'.params.surname)
             /\ \A i \in DOMAIN actor :
                   ~SamePair(actor[i], last'.params.name, last'.params.surname) )
           => /\ last'.status = 200
              /\ last'.body.id \notin DOMAIN actor
              /\ DOMAIN actor' = DOMAIN actor \cup {last'.body.id}
              /\ actor'[last'.body.id] = last'.params
        /\ ( /\ Handled({"add_actor"})
             /\ prev.op = "add_actor"
             /\ last'.params = prev.params )
           => /\ last'.status = 409
              /\ {i \in DOMAIN actor' :
                     SamePair(actor'[i], prev.params.name, prev.params.surname)}
                 = {prev.id} ]_vars

\* The second of two equal creates has been answered 409.
C2_Witness ==
    /\ prev.op = "add_actor"
    /\ last.op = "add_actor"
    /\ last.params = prev.params
    /\ last.status = 409

\* C3: an update-actor request is answered 409 exactly when an actor with
\* another id holds the requested pair, and 200 when the actor updated is
\* the only holder of the pair it is sent.
C3_UpdateConflict ==
    [][ Handled({"edit_actor"}) =>
          LET others == {j \in DOMAIN actor \ {last'.id} :
                            SamePair(actor[j], last'.params.name, last'.params.surname)}
          IN  /\ others # {} => last'.status = 409
              /\ others = {} => last'.status # 409
              /\ ( /\ others = {}
                   /\ last'.id \in DOMAIN actor
                   /\ actor[last'.id] = last'.params )
                 => last'.status = 200 /\ actor' = actor ]_vars

\* An actor has been updated to the pair it already had, another actor stored.
C3_Witness ==
    /\ last.op = "edit_actor"
    /\ last.status = 200
    /\ last.id \in DOMAIN actor
    /\ actor[last.id] = last.params
    /\ ~Empty(last.params.name) /\ ~Empty(last.params.surname)
    /\ Cardinality(DOMAIN actor) = 2

IdOps == {"edit_actor", "del_actor", "edit_movie", "del_movie"}

Missing(r) == IF r.op \in {"edit_actor", "del_actor", "get_single_actor"}
              THEN r.id \notin DOMAIN actor
              ELSE r.id \notin DOMAIN movies

\* C4 as stated: an update or a single delete on an id that is not in the
\* store is answered 404, whatever the body and the store.
C4_MissingIs404 ==
    [][ Handled(IdOps) /\ Missing(last') => last'.status = 404 ]_vars

HeldByARow(r) ==
    \/ /\ r.op = "edit_actor"
       /\ \E j \in DOMAIN actor : SamePair(actor[j], r.params.name, r.params.surname)
    \/ /\ r.op = "edit_movie"
       /\ \E j \in DOMAIN movies : SameKey(movies[j], r.params.title, r.params.year)

\* C4 amended: a single delete on an id that is not in the store is answered
\* 404; an update on such an id is answered 409 when a stored row holds the
\* pair of the body, and 404 otherwise.
C4_MissingIs404Or409 ==
    [][ Handled(IdOps) /\ Missing(last') =>
          last'.status = IF HeldByARow(last') THEN 409 ELSE 404 ]_vars

\* An update of an id that is not stored has been answered 409.
C4_Witness ==
    /\ last.op \in {"edit_actor", "edit_movie"}
    /\ Missing(last)
    /\ last.status = 409

\* The positions of the id list whose id is stored in table t.
PresentAt(t, id_list) == {k \in DOMAIN id_list : id_list[k] \in DOMAIN t}

BatchReport(t, post, r) ==
    LET allPresent == \A k \in DOMAIN r.ids : r.ids[k] \in DOMAIN t
    IN  /\ r.status = 200
        /\ \A k \in DOMAIN r.ids : r.ids[k] \notin DOMAIN post
        /\ r.body.kind = "full" <=> allPresent
        /\ r.body.kind = "full" => r.body.deleted_ids = r.ids
        /\ r.body.kind # "full" =>
              /\ r.body.kind = "partial"
              /\ r.body.requested_ids = r.ids
              /\ r.body.actual_deleted_count \in
                    {Cardinality(PresentAt(t, r.ids)),
                     Cardinality(Range(r.ids) \cap DOMAIN t)}

\* C5: a batch delete with a non-empty id list reports full success exactly
\* when every requested id was stored and has been deleted, and otherwise
\* partial success with the number of requested ids that were stored and the
\* list as sent; also for lists that name an id more than once.
C5_BatchReport ==
    [][ /\ Handled({"del_actors"}) /\ last'.ids # <<>>
           => BatchReport(actor, actor', last')
        /\ Handled({"del_movies"}) /\ last'.ids # <<>>
           => BatchReport(movies, movies', last') ]_vars

\* C6: a get on an id that is not stored is answered 404, and a get right
\* after a successful create, on the id the create returned, is answered
\* with that id and the fields created.
C6_GetAfterCreate ==
    [][ /\ Handled({"get_single_actor", "get_single_movie"}) /\ Missing(last')
           => last'.status = 404
        /\ ( /\ Handled({"get_single_actor"})
             /\ prev.op = "add_actor" /\ prev.id = last'.id )
           => /\ last'.status = 200
              /\ last'.body = [kind |-> "actor", id |-> prev.id,
                               name |-> prev.params.name,
                               surname |-> prev.params.surname]
        /\ ( /\ Handled({"get_single_movie"})
             /\ prev.op = "add_movie" /\ prev.id = last'.id )
           => /\ last'.status = 200
              /\ last'.body = [kind |-> "movie", id |-> prev.id,
                               title |-> prev.params.title,
                               year |-> prev.params.year,
                               actors |-> prev.params.actors] ]_vars

\* A get of the actor created just before has been answered.
C6_Witness ==
    /\ prev.op = "add_actor"
    /\ last.op = "get_single_actor"
    /\ last.id = prev.id
    /\ last.status = 200

\* C7: a create-actor request whose name or surname is missing or empty is
\* answered 400 and leaves the actor table as it was.
C7_EmptyIs400 ==
    [][ ( /\ Handled({"add_actor"})
          /\ Empty(last'.params.name) \/ Empty(last'.params.surname) )
        => last'.status = 400 /\ actor' = actor ]_vars

\* A create with an empty surname has been refused while an actor with the
\* name sent is stored.
C7_Witness ==
    /\ last.op = "add_actor"
    /\ last.status = 400
    /\ last.params.surname = Txt("")
    /\ \E i \in DOMAIN actor : actor[i].name = last.params.name

\* C8: every stored actor has a non-empty name and a non-empty surname and
\* every stored movie a non-empty title.
C8_NonEmptyFields ==
    /\ \A i \in DOMAIN actor : ~Empty(actor[i].name) /\ ~Empty(actor[i].surname)
    /\ \A i \in DOMAIN movies : ~Empty(movies[i].title)

\* C9: the write of a create or an update is not preceded by a second look
\* at the table. A worker that has passed its duplicate check inserts (or
\* updates its row) with its pair and answers 200 even when another worker
\* has stored that pair on another row in between, and two actors then
\* share the pair.
C9_CheckThenWrite ==
    [][ \A p \in Procs :
          ( /\ req[p].pc = "write" /\ req'[p].pc = "done"
            /\ req[p].op = "add_actor" \/ req[p].id \in DOMAIN actor )
          => /\ req'[p].status = 200
             /\ req'[p].id \in DOMAIN actor'
             /\ actor'[req'[p].id] = req[p].params
             /\ ( \E j \in DOMAIN actor \ {req'[p].id} :
                     SamePair(actor[j], req[p].params.name, req[p].params.surname) )
                => ~C1_UniqueKeys' ]_vars

\* Two concurrent creates of one pair have both answered 200 and two actors
\* share the pair.
C9_Witness ==
    /\ \A p \in Procs : req[p].pc = "done" /\ req[p].op = "add_actor" /\ req[p].status = 200
    /\ req[1].params = req[2].params
    /\ \E i, j \in DOMAIN actor : i # j /\ actor[i] = actor[j]

ActorOps == {"actors", "get_single_actor", "add_actor", "edit_actor",
             "del_actors", "del_actor"}
MovieOps == {"get_movies", "get_single_movie", "add_movie", "edit_movie",
             "del_movies", "del_movie"}

\* C10: a request answered 400, 404 or 409 leaves both tables as they were;
\* an actor request leaves the movie table, and a movie request the actor
\* table, as it was.
C10_Frame ==
    [][ /\ Handled(ActorOps \cup MovieOps) /\ last'.status \in {400, 404, 409}
           => actor' = actor /\ movies' = movies
        /\ Handled(ActorOps) => movies' = movies
        /\ Handled(MovieOps) => actor' = actor ]_vars

\* A delete of a movie that is not stored has been answered 404 with rows in
\* both tables.
C10_Witness ==
    /\ last.op = "del_movie"
    /\ last.status = 404
    /\ actor # <<>>
    /\ movies # <<>>

====
